---------------------------- MODULE Spec2Model ----------------------------
(***************************************************************************)
(* A model of pogom/search.py: the location-step generator, the clock      *)
(* helpers (timeDif, SbSearch), the spawn assigner (assign_spawns), the    *)
(* grid and spawn-scan overseers and their worker threads.                 *)
(*                                                                         *)
(* Pure functions are operators computed the way the code computes them;   *)
(* each has a small specification that draws its inputs in Init and        *)
(* applies it.  The threads are modelled in Spec, one action per step of   *)
(* a thread between two blocking calls.                                    *)
(***************************************************************************)
EXTENDS Integers, Sequences, FiniteSets, TLC

VARIABLES
    call,                 \* arguments of the pure function under check
    ret,                  \* <<>> before the call returns, <<value>> after
    args,                 \* the run's parameters (args.scan_delay, ...)
    spawns,               \* assign_spawns: the input, sorted by time
    Q,                    \* assign_spawns: per-worker queues
    delays,               \* assign_spawns: recorded delays
    bad,                  \* assign_spawns: rejected points
    cursor,               \* greedy_assign: index of the next point of spawns
    schedule,             \* <<>>, or <<the schedule assign_spawns returned>>
    mode,                 \* "grid" (search_overseer_thread) or "ss" (.._ss)
    overseer,             \* the overseer thread: "load", "run" or "dead"
    pause_bit,            \* the pause flag
    new_location_queue,   \* the relocation channel
    current_location,     \* <<>> (False) or the adopted center
    locations,            \* the active step list
    search_items_queue,   \* grid mode: the shared queue
    search_items_queues,  \* spawn-scan mode: one queue per worker
    pos,                  \* spawn-scan overseer: the cursor
    now,                  \* curSec(): seconds past the hour
    passes,               \* refills (grid) or dispatches (ss) so far
    parse_lock,           \* the Lock() handed to every worker
    overseer_message,     \* threadStatus['Overseer']['message']
    clock,                \* grid mode: time.time(), in seconds
    pc,                   \* where each worker thread is
    job,                  \* the queue item a worker holds, or <<>>
    failed_total,         \* per worker
    sleep_time,           \* per worker; Unbound until first assigned
    login_i,              \* per worker: i of check_login
    authed,               \* per worker: the session holds a ticket
    status,               \* per worker: threadStatus counters
    long_sleep_time,      \* per worker
    slept,                \* per worker: seconds slept since the last failure
    loop_start_time,      \* per worker, grid mode (in seconds)
    last_get              \* per worker: clock at the latest queue get

pureVars   == <<call, ret>>
assignVars == <<args, spawns, Q, delays, bad, cursor, schedule>>
overseerVars == <<mode, overseer, pause_bit, new_location_queue,
                  current_location, locations, search_items_queue,
                  search_items_queues, pos, now, passes, parse_lock,
                  overseer_message>>
timingVars == <<clock, slept, loop_start_time, last_get>>
workerVars == <<pc, job, failed_total, sleep_time, login_i, authed, status,
                long_sleep_time, timingVars>>
threadVars == <<overseerVars, workerVars>>
vars       == <<pureVars, assignVars, threadVars>>

(***************************************************************************)
(* Bounds of the model.                                                    *)
(***************************************************************************)
TimeWindow   == 1      \* sampled seconds lie within TimeWindow of a mark
MaxSched     == 3      \* longest schedule handed to SbSearch
MaxCoord     == 2      \* centers are lattice points in -MaxCoord..MaxCoord
MaxStepLimit == 4      \* largest ring count (args.step_limit)
MaxSpawns    == 3      \* most spawn points handed to assign_spawns
MaxAccounts  == 2      \* most workers (len(args.accounts))
MaxScanDelay == 10     \* args.scan_delay is 0 or MaxScanDelay
MaxSpeed     == 2      \* finite args.max_speed is in 1..MaxSpeed (m/s)
MaxDelay     == 15     \* finite args.max_delay is 0 or MaxDelay
MaxScanRetries  == 2   \* args.scan_retries is in 0..MaxScanRetries
MaxLoginRetries == 2   \* args.login_retries is in 0..MaxLoginRetries
MaxPasses    == 2      \* queue refills the grid overseer makes
MaxDispatch  == 2      \* points the spawn-scan overseer dispatches
MaxPending   == 2      \* relocation signals waiting in the channel
MaxClock     == 30
ClockStep    == 5
MaxRounds    == 4
TicksPerHour == 4      \* the clock advances Hour / TicksPerHour at a time

(***************************************************************************)
(* Program constants.                                                      *)
(***************************************************************************)
Hour     == 3600
HalfHour == 1800

Max(x, y) == IF x >= y THEN x ELSE y
Abs(x)    == IF x < 0 THEN 0 - x ELSE x

\* Seconds past the hour the model samples: those around the marks the code
\* compares against (0, 60, 840, 1800, 3540, 3600).
TimeMarks   == {0, 60, 840, HalfHour, Hour - 60, Hour}
TimeSamples == {t \in 0..(Hour - 1) :
                   \E m \in TimeMarks : Abs(t - m) <= TimeWindow}

(***************************************************************************)
(* timeDif (search.py 123-130).                                            *)
(***************************************************************************)
timeDifNoUpperWrap(a, b) ==
    LET dif0 == a - b
    IN  IF dif0 < -HalfHour THEN dif0 + Hour ELSE dif0

timeDif(a, b) ==
    LET dif0 == a - b
        dif1 == IF dif0 < -HalfHour THEN dif0 + Hour ELSE dif0
        dif2 == IF dif1 > HalfHour THEN dif1 - Hour ELSE dif1
    IN  dif2

(***************************************************************************)
(* SbSearch (search.py 134-143).  Slist is a sequence of records with a    *)
(* time field; the code's indices are 0-based, so Slist[mp] of the code    *)
(* is Slist[mp + 1] here.  The result is the code's 0-based index.         *)
(***************************************************************************)
RECURSIVE SbLoop(_, _, _, _)
SbLoop(Slist, T, first, last) ==
    IF first < last
    THEN LET mp == (first + last) \div 2
         IN  IF Slist[mp + 1].time < T
             THEN SbLoop(Slist, T, mp + 1, last)
             ELSE SbLoop(Slist, T, first, mp)
    ELSE first

SbSearch(Slist, T) == SbLoop(Slist, T, 0, Len(Slist) - 1)

(***************************************************************************)
(* generate_location_steps (search.py 68-106).  get_new_coords is the      *)
(* great-circle projection; the model keeps a location as <<lat, lng>> on  *)
(* the hexagonal lattice the generator walks, latitude counted in rows     *)
(* (ydist) and longitude in half columns (xdist / 2), so a move north by   *)
(* ydist adds 1 to lat and a move east by xdist adds 2 to lng.             *)
(***************************************************************************)
NORTH == 0
EAST  == 90
SOUTH == 180
WEST  == 270
xdist == 2
ydist == 1

get_new_coords(init_loc, distance, bearing) ==
    CASE bearing = NORTH -> <<init_loc[1] + distance, init_loc[2]>>
      [] bearing = SOUTH -> <<init_loc[1] - distance, init_loc[2]>>
      [] bearing = EAST  -> <<init_loc[1], init_loc[2] + distance>>
      [] bearing = WEST  -> <<init_loc[1], init_loc[2] - distance>>

\* One pass of the body of "for i in range(ring)" (lines 89-104).
RingMove(loc, direction) ==
    CASE direction = 0 -> get_new_coords(loc, xdist, EAST)
      [] direction = 1 -> get_new_coords(get_new_coords(loc, ydist, SOUTH),
                                         xdist \div 2, EAST)
      [] direction = 2 -> get_new_coords(get_new_coords(loc, ydist, SOUTH),
                                         xdist \div 2, WEST)
      [] direction = 3 -> get_new_coords(loc, xdist, WEST)
      [] direction = 4 -> get_new_coords(get_new_coords(loc, ydist, NORTH),
                                         xdist \div 2, WEST)
      [] direction = 5 -> get_new_coords(get_new_coords(loc, ydist, NORTH),
                                         xdist \div 2, EAST)

\* The two nested for loops (lines 87-105): the locations yielded from
\* (direction, i) on, starting at loc.
RECURSIVE RingWalk(_, _, _, _)
RingWalk(loc, ring, direction, i) ==
    IF direction >= 6 THEN [out |-> <<>>, loc |-> loc]
    ELSE IF i >= ring THEN RingWalk(loc, ring, direction + 1, 0)
    ELSE LET l2   == RingMove(loc, direction)
             rest == RingWalk(l2, ring, direction, i + 1)
         IN  [out |-> <<<<l2[1], l2[2], 0>>>> \o rest.out, loc |-> rest.loc]

\* The while loop (lines 83-106).
RECURSIVE RingLoop(_, _, _)
RingLoopOffByOne(loc, ring, step_count) ==
    IF ring <= step_count
    THEN LET start == get_new_coords(get_new_coords(loc, ydist, NORTH),
                                     xdist \div 2, WEST)
             walk  == RingWalk(start, ring, 0, 0)
         IN  walk.out \o RingLoop(walk.loc, ring + 1, step_count)
    ELSE <<>>

RingLoop(loc, ring, step_count) ==
    IF ring < step_count
    THEN LET start == get_new_coords(get_new_coords(loc, ydist, NORTH),
                                     xdist \div 2, WEST)
             walk  == RingWalk(start, ring, 0, 0)
         IN  walk.out \o RingLoop(walk.loc, ring + 1, step_count)
    ELSE <<>>

generate_location_steps(initial_loc, step_count) ==
    <<<<initial_loc[1], initial_loc[2], 0>>>>
        \o RingLoop(<<initial_loc[1], initial_loc[2]>>, 1, step_count)


(***************************************************************************)
(* assign_spawns (search.py 439-567).                                      *)
(*                                                                         *)
(* A spawn point is a record [id, lat, time]: id is its place in the input *)
(* list (it tells equal points apart), lat its position in metres along    *)
(* one meridian, so that dist is the difference of two lats.  Speeds and   *)
(* delays are Python floats: the model keeps them as fractions <<num,      *)
(* den>> with den >= 0, float('inf') being <<1, 0>>.                       *)
(***************************************************************************)
Inf        == <<1, 0>>
Num(x)     == <<x, 1>>
Less(x, y) == x[1] * y[2] < y[1] * x[2]
LeqStrict(x, y) == Less(x, y)
Leq(x, y)  == x[1] * y[2] <= y[1] * x[2]
FMax(x, y) == IF Less(x, y) THEN y ELSE x

\* Tuples of floats compare lexicographically (min(scores), line 529).
TupleLessByDelay(s, t) == Less(s[1], t[1])

RECURSIVE TupleLess(_, _)
TupleLess(s, t) ==
    IF s = <<>> \/ t = <<>> THEN s = <<>> /\ t # <<>>
    ELSE IF Less(Head(s), Head(t)) THEN TRUE
    ELSE IF Less(Head(t), Head(s)) THEN FALSE
    ELSE TupleLess(Tail(s), Tail(t))

\* dist (lines 443-445), in metres.
dist(sp1, sp2) == Abs(sp1.lat - sp2.lat)

\* speed (lines 447-452).
speed(sp1, sp2) ==
    LET time == Max((sp2.time - sp1.time) % Hour, args.scan_delay)
    IN  IF time = 0 THEN Inf ELSE <<dist(sp1, sp2), time>>

\* dist(...) / max_speed (line 504); max_speed is finite where it is used.
OverMaxSpeed(d) == (d * args.max_speed[2]) \div args.max_speed[1]

\* list.sort(key=itemgetter('time')) (lines 523, 565): a stable sort.
RECURSIVE SortByTime(_)
SortInsert(sorted, sp) ==
    LET k == Cardinality({x \in 1..Len(sorted) : sorted[x].time <= sp.time})
    IN  SubSeq(sorted, 1, k) \o <<sp>> \o SubSeq(sorted, k + 1, Len(sorted))

SortByTime(list) ==
    IF list = <<>> THEN <<>>
    ELSE SortInsert(SortByTime(SubSeq(list, 1, Len(list) - 1)),
                    list[Len(list)])

\* line 515: the point is put into the queue
CommitsWhenDry(dry, score) == Less(score[1], Inf)

Commits(dry, score) == ~dry /\ Less(score[1], Inf)

\* insert (lines 468-518).  Returns the score and the queue after the call;
\* the point passed in is copied on entry (line 470) and stays as it was.
insert(queue, sp, dry) ==
    IF Len(queue) = 0
    THEN [score |-> <<Num(0), args.max_speed, args.max_speed, args.max_speed>>,
          queue |-> IF dry THEN queue ELSE Append(queue, sp)]
    ELSE
    LET falses == {x \in 1..Len(queue) : ~(queue[x].time <= sp.time)}
        \* k, i, j are the code's 0-based slots
        k   == IF falses # {}
               THEN (CHOOSE x \in falses : \A y \in falses : x <= y) - 1
               ELSE Len(queue)
        i   == (k - 1) % Len(queue)
        j   == k % Len(queue)
        qi  == queue[i + 1]
        qj  == queue[j + 1]
        sp1 == [sp EXCEPT !.time = Max(sp.time, qi.time + args.scan_delay)]
        s1  == speed(qi, sp1)
        s2  == speed(sp1, qj)
        time2wait == OverMaxSpeed(dist(qi, sp1)) - (sp1.time - qi.time)
        sp2 == [sp1 EXCEPT !.time = sp1.time + time2wait]
        noroom == <<Inf, Num(0), Num(0), Num(0)>>
        res ==
            IF i # j /\ (qj.time - qi.time) % Hour < 2 * args.scan_delay
            THEN [score |-> noroom, sp |-> sp1]
            ELSE IF Leq(s1, args.max_speed) /\ Leq(s2, args.max_speed)
            THEN [score |-> <<Num(0), FMax(s1, s2), s1, s2>>, sp |-> sp1]
            ELSE IF Less(args.max_speed, s2)
            THEN [score |-> noroom, sp |-> sp1]
            ELSE IF time2wait > (sp1.time - qj.time) % Hour
            THEN [score |-> noroom, sp |-> sp1]
            ELSE [score |-> <<Num(time2wait),
                              FMax(args.max_speed, speed(sp2, qj)),
                              args.max_speed, speed(sp2, qj)>>,
                  sp |-> sp2]
    IN  [score |-> res.score,
         queue |-> IF Commits(dry, res.score)
                   THEN SubSeq(queue, 1, k) \o <<res.sp>>
                            \o SubSeq(queue, k + 1, Len(queue))
                   ELSE queue]

\* One pass of "for sp in spawns" in greedy_assign (lines 527-536), from the
\* state st = [Q, delays, bad].
GreedyStep(st, sp) ==
    LET n      == Len(st.Q)
        scores == [w \in 1..n |-> <<insert(st.Q[w], sp, TRUE).score, w - 1>>]
        \* (score, index) pairs compare as Python tuples
        ScoreLess(x, y) ==
            \/ TupleLess(x[1], y[1])
            \/ ~TupleLess(y[1], x[1]) /\ x[2] < y[2]
        m      == CHOOSE w \in 1..n :
                      \A v \in 1..n : v # w => ScoreLess(scores[w], scores[v])
        delay  == scores[m][1][1]
    IN  IF Leq(delay, args.max_delay)
        THEN [Q      |-> [st.Q EXCEPT
                             ![m] = insert(st.Q[m], sp, FALSE).queue],
              delays |-> IF Less(Num(0), delay)
                         THEN Append(st.delays, delay) ELSE st.delays,
              bad    |-> st.bad]
        ELSE [Q |-> st.Q, delays |-> st.delays, bad |-> Append(st.bad, sp)]

\* Lines 558-567: tag every point with its worker, merge, sort.
RECURSIVE Concat(_)
Concat(qs) == IF qs = <<>> THEN <<>> ELSE Head(qs) \o Concat(Tail(qs))

MergeQueues(queues) ==
    SortByTime(Concat([w \in 1..Len(queues) |->
        [x \in 1..Len(queues[w]) |->
            [id     |-> queues[w][x].id,
             lat    |-> queues[w][x].lat,
             time   |-> queues[w][x].time,
             worker |-> w - 1]]]))


(***************************************************************************)
(* Specifications of the pure functions: Init draws the arguments, the     *)
(* one action applies the function.                                        *)
(***************************************************************************)
ThreadsIdle ==
    /\ mode = "none" /\ overseer = "none" /\ pause_bit = FALSE
    /\ new_location_queue = <<>> /\ current_location = <<>>
    /\ locations = <<>> /\ search_items_queue = <<>>
    /\ search_items_queues = <<>> /\ pos = 0 /\ now = 0 /\ passes = 0
    /\ parse_lock = "unlocked" /\ overseer_message = "none" /\ clock = 0
    /\ pc = <<>> /\ job = <<>> /\ failed_total = <<>> /\ sleep_time = <<>>
    /\ login_i = <<>> /\ authed = <<>> /\ status = <<>>
    /\ long_sleep_time = <<>> /\ slept = <<>> /\ loop_start_time = <<>>
    /\ last_get = <<>>

AssignIdle ==
    /\ args = [n |-> 0]
    /\ spawns = <<>> /\ Q = <<>> /\ delays = <<>> /\ bad = <<>>
    /\ cursor = 0 /\ schedule = <<>>
    /\ ThreadsIdle

PureIdle == call = [fn |-> "none"] /\ ret = <<>>

Returned(fn) == call.fn = fn /\ ret # <<>>

\* timeDif
InitTimeDif ==
    /\ call \in [fn : {"timeDif"}, a : TimeSamples, b : TimeSamples]
    /\ ret = <<>>
    /\ AssignIdle

TimeDifCall ==
    /\ call.fn = "timeDif" /\ ret = <<>>
    /\ ret' = <<timeDif(call.a, call.b)>>
    /\ UNCHANGED <<call, assignVars, threadVars>>

SpecTimeDif == InitTimeDif /\ [][TimeDifCall]_vars

\* SbSearch: every non-empty schedule sorted by time
SortedLists ==
    {l \in UNION {[1..len -> [time : TimeSamples]] : len \in 1..MaxSched} :
        \A x \in 1..(Len(l) - 1) : l[x].time <= l[x + 1].time}

InitSbSearch ==
    /\ call \in [fn : {"SbSearch"}, Slist : SortedLists, T : TimeSamples]
    /\ ret = <<>>
    /\ AssignIdle

SbSearchCall ==
    /\ call.fn = "SbSearch" /\ ret = <<>>
    /\ ret' = <<SbSearch(call.Slist, call.T)>>
    /\ UNCHANGED <<call, assignVars, threadVars>>

SpecSbSearch == InitSbSearch /\ [][SbSearchCall]_vars

\* generate_location_steps
Centers == (-MaxCoord..MaxCoord) \X (-MaxCoord..MaxCoord)

InitSteps ==
    /\ call \in [fn : {"generate_location_steps"}, initial_loc : Centers,
                 step_count : 1..MaxStepLimit]
    /\ ret = <<>>
    /\ AssignIdle

StepsCall ==
    /\ call.fn = "generate_location_steps" /\ ret = <<>>
    /\ ret' = <<generate_location_steps(call.initial_loc, call.step_count)>>
    /\ UNCHANGED <<call, assignVars, threadVars>>

SpecSteps == InitSteps /\ [][StepsCall]_vars

(***************************************************************************)
(* Specification of assign_spawns: one action per pass of the loop of      *)
(* greedy_assign.                                                          *)
(***************************************************************************)
RECURSIVE Factorial(_)
Factorial(k) == IF k <= 1 THEN 1 ELSE k * Factorial(k - 1)

\* Every distance is a multiple of every finite max_speed, so that the
\* division of line 504 is exact.
LatUnit    == Factorial(MaxSpeed)
Lats       == {0, 4 * LatUnit, 20 * LatUnit}
SpawnTimes == {0, 5, 20, Hour - 1}
ScanDelays == {0, MaxScanDelay}
MaxSpeeds  == {Num(v) : v \in 1..MaxSpeed} \cup {Inf}
MaxDelays  == {Num(0), Num(MaxDelay), Inf}

SpawnLists == UNION {[1..len -> Lats \X SpawnTimes] : len \in 0..MaxSpawns}
SpawnInputs ==
    {[x \in 1..Len(l) |-> [id |-> x, lat |-> l[x][1], time |-> l[x][2]]] :
        l \in SpawnLists}

InitAssign ==
    /\ PureIdle
    /\ ThreadsIdle
    /\ args \in [n : 1..MaxAccounts, scan_delay : ScanDelays,
                 max_speed : MaxSpeeds, max_delay : MaxDelays]
    /\ spawns \in SpawnInputs
    /\ Q = <<>> /\ delays = <<>> /\ bad = <<>>
    /\ cursor = 0 /\ schedule = <<>>

\* greedy_assign, lines 523-526
GreedyStart ==
    /\ args.n > 0 /\ cursor = 0
    /\ spawns' = SortByTime(spawns)
    /\ Q' = [w \in 1..args.n |-> <<>>]
    /\ cursor' = 1
    /\ UNCHANGED <<pureVars, threadVars, args, delays, bad, schedule>>

\* greedy_assign, one pass of lines 527-536
GreedyLoop ==
    /\ cursor >= 1 /\ cursor <= Len(spawns)
    /\ LET st == GreedyStep([Q |-> Q, delays |-> delays, bad |-> bad],
                            spawns[cursor])
       IN  Q' = st.Q /\ delays' = st.delays /\ bad' = st.bad
    /\ cursor' = cursor + 1
    /\ UNCHANGED <<pureVars, threadVars, args, spawns, schedule>>

\* assign_spawns, lines 542-567
AssignReturn ==
    /\ cursor = Len(spawns) + 1 /\ schedule = <<>>
    /\ schedule' = <<MergeQueues(Q)>>
    /\ UNCHANGED <<pureVars, threadVars, args, spawns, Q, delays, bad,
                   cursor>>

NextAssign == GreedyStart \/ GreedyLoop \/ AssignReturn

SpecAssign == InitAssign /\ [][NextAssign]_vars


(***************************************************************************)
(* The threads: search_overseer_thread and search_worker_thread (grid      *)
(* mode), search_overseer_thread_ss and search_worker_thread_ss            *)
(* (spawn-scan mode), check_login and map_request.                         *)
(*                                                                         *)
(* pc[w] is the place of worker w:                                         *)
(*   "start"     top of the outer loop (session creation, lines 579-594)   *)
(*   "wait"      blocked in search_items_queue.get()                       *)
(*   "position"  holds an item, before api.set_position                    *)
(*   "attempt"   top of the retry loop (line 613 / 717)                    *)
(*   "login"     entering check_login                                      *)
(*   "auth"      in the login loop of check_login (line 785)               *)
(*   "request"   check_login has returned, before map_request              *)
(*   "parse"     inside parse_map                                          *)
(*   "cooldown"  in the long sleep loop (line 627 / 725)                   *)
(*   "pace"      grid mode, lines 673-678                                  *)
(*   "post"      spawn-scan mode, lines 760-761                            *)
(*   "dead"      the thread has ended                                      *)
(*                                                                         *)
(* failed_total, i (of check_login) and long_sleep_time are locals that    *)
(* the code assigns anew (lines 609, 783, 625) before it reads them again; *)
(* the model sets them back to 0 where the code stops reading them, so     *)
(* that their dead values do not multiply the states.  sleep_time is read  *)
(* by the except clause and keeps its value.                               *)
(***************************************************************************)
Unbound        == -1              \* sleep_time before its first assignment
LongSleepLimit == 2 * 60 * 20     \* line 627
LongSleepStep  == 300             \* lines 630-631
TicketMargin   == 60              \* line 778
DispatchLag    == 60              \* line 428
TooLate        == 840             \* line 711

Workers == 0..(args.n - 1)

\* greedy_assign (lines 522-540) and assign_spawns (439-567) as functions.
RECURSIVE GreedyFold(_, _, _)
GreedyFold(list, x, st) ==
    IF x > Len(list) THEN st
    ELSE GreedyFold(list, x + 1, GreedyStep(st, list[x]))

greedy_assign(list, n) ==
    GreedyFold(SortByTime(list), 1,
               [Q |-> [w \in 1..n |-> <<>>], delays |-> <<>>, bad |-> <<>>])

assign_spawns(list, n) == MergeQueues(greedy_assign(list, n).Q)

\* The spawn points of the spawn-scan run: two at the same second too far
\* apart for one worker, one later.
SSSpawns ==
    <<[id |-> 1, lat |-> 0, time |-> 14 * 60],
      [id |-> 2, lat |-> 20 * LatUnit, time |-> 14 * 60],
      [id |-> 3, lat |-> 0, time |-> 29 * 60]>>

GridCenters == {<<0, 0>>, <<MaxCoord, 0>>}

InitWorkersWith(accounts, limit) ==
    /\ PureIdle
    /\ mode \in {"grid", "ss"}
    /\ args \in [n : {accounts}, scan_delay : {MaxScanDelay},
                 max_speed : {Num(MaxSpeed)}, max_delay : {Num(MaxDelay)},
                 scan_retries : 0..MaxScanRetries,
                 login_retries : 0..MaxLoginRetries,
                 step_limit : {limit}]
    /\ spawns = IF mode = "ss" THEN SSSpawns ELSE <<>>
    /\ Q = <<>> /\ delays = <<>> /\ bad = <<>> /\ cursor = 0
    /\ schedule = <<>>
    /\ overseer = IF mode = "ss" THEN "load" ELSE "run"
    /\ pause_bit = FALSE
    /\ search_items_queues = [w \in Workers |-> <<>>]
    /\ pos = 0
    /\ now \in IF mode = "ss" THEN {0, Hour \div TicksPerHour} ELSE {0}
    /\ parse_lock = "unlocked"
    /\ pc = [w \in Workers |-> "start"]
    /\ job = [w \in Workers |-> <<>>]
    /\ failed_total = [w \in Workers |-> 0]
    /\ sleep_time = [w \in Workers |-> Unbound]
    /\ login_i = [w \in Workers |-> 0]
    /\ authed = [w \in Workers |-> FALSE]
    /\ status = [w \in Workers |->
                    [success |-> 0, fail |-> 0, noitems |-> 0, skip |-> 0]]
    /\ long_sleep_time = [w \in Workers |-> 0]
    /\ clock = 0
    /\ slept = [w \in Workers |-> 0]
    /\ loop_start_time = [w \in Workers |-> 0]
    /\ last_get = [w \in Workers |-> Unbound]

\* lines 280-281: the overseer before its first iteration; the caller has
\* put the starting location on new_location_queue
OverseerStarting ==
    /\ new_location_queue = IF mode = "grid" THEN <<<<0, 0>>>> ELSE <<>>
    /\ current_location = <<>>
    /\ locations = <<>>
    /\ search_items_queue = <<>>
    /\ passes = 0
    /\ overseer_message = "Initializing"

InitThreadsWith(accounts, limit) ==
    /\ InitWorkersWith(accounts, limit)
    /\ OverseerStarting

InitThreadsOf(accounts) == InitThreadsWith(accounts, 1)

InitThreads == InitThreadsOf(MaxAccounts)

(***************************************************************************)
(* The environment: the pause flag, the relocation channel, the clock.     *)
(***************************************************************************)
TogglePauseDropsPending ==
    /\ mode = "grid"
    /\ pause_bit' = ~pause_bit
    /\ new_location_queue' = <<>>
    /\ UNCHANGED <<pureVars, assignVars, workerVars, mode, overseer,
                   current_location, locations,
                   search_items_queue, search_items_queues, pos, now, passes,
                   parse_lock, overseer_message>>

TogglePause ==
    /\ mode = "grid"
    /\ pause_bit' = ~pause_bit
    /\ UNCHANGED <<pureVars, assignVars, workerVars, mode, overseer,
                   new_location_queue, current_location, locations,
                   search_items_queue, search_items_queues, pos, now, passes,
                   parse_lock, overseer_message>>

NewLocation(c) ==
    /\ mode = "grid"
    /\ Len(new_location_queue) < MaxPending
    /\ new_location_queue' = Append(new_location_queue, c)
    /\ UNCHANGED <<pureVars, assignVars, workerVars, mode, overseer,
                   pause_bit, current_location, locations,
                   search_items_queue, search_items_queues, pos, now, passes,
                   parse_lock, overseer_message>>

\* curSec (lines 119-120) as time passes, in spawn-scan mode (the only
\* reader of the clock).
Tick ==
    /\ mode = "ss"
    /\ now' = (now + Hour \div TicksPerHour) % Hour
    /\ UNCHANGED <<pureVars, assignVars, workerVars, mode, overseer,
                   pause_bit, new_location_queue, current_location,
                   locations, search_items_queue, search_items_queues, pos,
                   passes, parse_lock, overseer_message>>

\* time.time() as time passes, in grid mode: while a worker is blocked on
\* the queue, waits for a response or sleeps.
GridTick ==
    /\ mode = "grid"
    /\ clock < MaxClock
    /\ clock' = clock + ClockStep
    /\ UNCHANGED <<pureVars, assignVars, overseerVars, pc, job, failed_total,
                   sleep_time, login_i, authed, status, long_sleep_time,
                   slept, loop_start_time, last_get>>

(***************************************************************************)
(* search_overseer_thread: one pass of its loop (lines 285-363).           *)
(***************************************************************************)
EnumerateDescending(list) ==
    [x \in 1..Len(list) |-> <<Len(list) + 1 - x, list[Len(list) + 1 - x]>>]

Enumerate(list) == [x \in 1..Len(list) |-> <<x, list[x]>>]

\* lines 289-294 and 308-313: get_nowait() until Empty
DrainKeepsItems(queue) == queue

Drain(queue) == <<>>

\* lines 302-306: get_nowait() until Empty, keeping the last item received
OldestLocation(queue) == queue[1]

LatestLocation(queue) == queue[Len(queue)]

GridOverseer ==
    /\ mode = "grid" /\ overseer = "run"
    /\ IF pause_bit
       THEN /\ search_items_queue' = Drain(search_items_queue)
            /\ overseer_message' = "Scanning is paused"
            /\ UNCHANGED <<new_location_queue, current_location, locations,
                           passes>>
       ELSE LET moved   == new_location_queue # <<>>
                center  == IF moved
                           THEN LatestLocation(new_location_queue)
                           ELSE current_location
                steps   == IF moved
                           THEN generate_location_steps(center,
                                                        args.step_limit)
                           ELSE locations
                drained == IF moved THEN Drain(search_items_queue)
                           ELSE search_items_queue
            IN  /\ drained = <<>> => passes < MaxPasses
                /\ new_location_queue' = Drain(new_location_queue)
                /\ current_location' = center
                /\ locations' = steps
                /\ search_items_queue' =
                       IF drained = <<>> THEN Enumerate(steps) ELSE drained
                /\ passes' = IF drained = <<>> /\ steps # <<>>
                             THEN passes + 1 ELSE passes
                /\ overseer_message' =
                       IF drained # <<>> THEN "Processing search queue"
                       ELSE IF steps # <<>> THEN "Queuing next step"
                       ELSE overseer_message
    /\ UNCHANGED <<pureVars, assignVars, workerVars, mode, overseer,
                   pause_bit, search_items_queues, pos, now, parse_lock>>

(***************************************************************************)
(* search_overseer_thread_ss.                                              *)
(***************************************************************************)
\* lines 406-426: build the schedule, find the initial cursor
SSLoad ==
    /\ mode = "ss" /\ overseer = "load"
    /\ LET sched == assign_spawns(spawns, args.n)
       IN  /\ schedule' = <<sched>>
           /\ pos' = SbSearch(sched, (now + 3540) % Hour)
    /\ overseer' = "run"
    /\ UNCHANGED <<pureVars, workerVars, args, spawns, Q, delays, bad, cursor,
                   mode, pause_bit, new_location_queue, current_location,
                   locations, search_items_queue, search_items_queues, now,
                   passes, parse_lock, overseer_message>>

\* line 436
AdvanceByTwo(p, len) == (p + 2) % len

Advance(p, len) == (p + 1) % len

\* lines 427-436: the point under the cursor is due; limit caps the number
\* of dispatches of a run
SSDispatchUpTo(limit) ==
    /\ mode = "ss" /\ overseer = "run"
    /\ passes < limit
    /\ IF Len(schedule[1]) = 0
       THEN \* spawns[pos] raises IndexError: the overseer is not supervised
            /\ overseer' = "dead"
            /\ UNCHANGED <<search_items_queues, pos, passes>>
       ELSE LET sp == schedule[1][pos + 1]
            IN  /\ ~(timeDif(now, sp.time) < DispatchLag)
                /\ search_items_queues' =
                       [search_items_queues EXCEPT
                           ![sp.worker] = Append(@, <<pos, <<sp.lat, 0, 40>>,
                                                      sp.time>>)]
                /\ pos' = Advance(pos, Len(schedule[1]))
                /\ passes' = passes + 1
                /\ UNCHANGED overseer
    /\ UNCHANGED <<pureVars, assignVars, workerVars, mode, pause_bit,
                   new_location_queue, current_location, locations,
                   search_items_queue, now, parse_lock, overseer_message>>

SSDispatch == SSDispatchUpTo(MaxDispatch)

(***************************************************************************)
(* search_worker_thread and search_worker_thread_ss.                       *)
(***************************************************************************)
\* The except clause (lines 681-684, 767-770): time.sleep(sleep_time) reads
\* a local that is unassigned until line 637 / 731 has run once in this
\* thread; reading it unassigned raises UnboundLocalError inside the
\* handler, outside every try, and the thread ends.
Handler(w) ==
    /\ pc' = [pc EXCEPT ![w] = IF sleep_time[w] = Unbound THEN "dead"
                                                         ELSE "start"]
    /\ job' = [job EXCEPT ![w] = <<>>]
    /\ failed_total' = [failed_total EXCEPT ![w] = 0]
    /\ login_i' = [login_i EXCEPT ![w] = 0]

\* line 613 / 717
TooManyFailuresOffByOne(w) == failed_total[w] > args.scan_retries

TooManyFailures(w) == failed_total[w] >= args.scan_retries

FaultPoints ==
    {"start", "wait", "position", "login", "auth", "request", "parse",
     "pace", "post"}

\* A call made at pc[w] raises an exception other than the ones the loop
\* handles in place.
Fault(w) ==
    /\ pc[w] \in FaultPoints
    /\ Handler(w)
    /\ UNCHANGED <<pureVars, assignVars, overseerVars, sleep_time, authed,
                   status, long_sleep_time,
                   timingVars>>

\* lines 579-594 / 694-703: a new api object
WorkerStart(w) ==
    /\ pc[w] = "start"
    /\ pc' = [pc EXCEPT ![w] = "wait"]
    /\ authed' = [authed EXCEPT ![w] = FALSE]
    /\ loop_start_time' = [loop_start_time EXCEPT
                               ![w] = IF mode = "grid" THEN clock ELSE @]
    /\ last_get' = [last_get EXCEPT ![w] = Unbound]
    /\ UNCHANGED <<pureVars, assignVars, overseerVars, job, failed_total,
                   sleep_time, login_i, status, long_sleep_time,
                   clock, slept>>

\* lines 600-603
GridGet(w) ==
    /\ mode = "grid" /\ pc[w] = "wait"
    /\ search_items_queue # <<>>
    /\ job' = [job EXCEPT ![w] = Head(search_items_queue)]
    /\ search_items_queue' = Tail(search_items_queue)
    /\ pc' = [pc EXCEPT ![w] = "position"]
    /\ last_get' = [last_get EXCEPT ![w] = clock]
    /\ UNCHANGED <<pureVars, assignVars, mode, overseer, pause_bit,
                   new_location_queue, current_location, locations,
                   search_items_queues, pos, now, passes, parse_lock,
                   overseer_message, clock, slept, loop_start_time,
                   failed_total, sleep_time, login_i, authed, status,
                   long_sleep_time>>

\* lines 707-711 and 762-766
SSGet(w) ==
    /\ mode = "ss" /\ pc[w] = "wait"
    /\ search_items_queues[w] # <<>>
    /\ search_items_queues' = [search_items_queues EXCEPT ![w] = Tail(@)]
    /\ LET item == Head(search_items_queues[w])
       IN  IF timeDif(now, item[3]) < TooLate
           THEN /\ job' = [job EXCEPT ![w] = item]
                /\ pc' = [pc EXCEPT ![w] = "position"]
                /\ UNCHANGED status
           ELSE /\ status' = [status EXCEPT ![w].skip = @ + 1]
                /\ UNCHANGED <<job, pc>>
    /\ UNCHANGED <<pureVars, assignVars, mode, overseer, pause_bit,
                   new_location_queue, current_location, locations,
                   search_items_queue, pos, now, passes, parse_lock,
                   overseer_message, timingVars,
                   failed_total, sleep_time, login_i, authed,
                   long_sleep_time>>

\* lines 606-609 / 713-715
SetPosition(w) ==
    /\ pc[w] = "position"
    /\ failed_total' = [failed_total EXCEPT ![w] = 0]
    /\ pc' = [pc EXCEPT ![w] = "attempt"]
    /\ UNCHANGED <<pureVars, assignVars, overseerVars, job, sleep_time,
                   login_i, authed, status, long_sleep_time,
                   timingVars>>

\* lines 613-626 / 717-724: give the item up
Abandon(w) ==
    /\ pc[w] = "attempt"
    /\ TooManyFailures(w)
    /\ job' = [job EXCEPT ![w] = <<>>]
    /\ long_sleep_time' = [long_sleep_time EXCEPT ![w] = 0]
    /\ slept' = [slept EXCEPT ![w] = 0]
    /\ pc' = [pc EXCEPT ![w] = "cooldown"]
    /\ UNCHANGED <<pureVars, assignVars, overseerVars, failed_total,
                   sleep_time, login_i, authed, status,
                   clock, loop_start_time, last_get>>

\* lines 627-631 / 725-729: one heartbeat and one sleep
CooldownBeat(w) ==
    /\ pc[w] = "cooldown"
    /\ long_sleep_time[w] < LongSleepLimit
    /\ long_sleep_time' = [long_sleep_time EXCEPT ![w] = @ + LongSleepStep]
    /\ UNCHANGED <<pureVars, assignVars, overseerVars, pc, job, failed_total,
                   sleep_time, login_i, authed, status,
                   timingVars>>

\* line 632 / 730
CooldownEnd(w) ==
    /\ pc[w] = "cooldown"
    /\ ~(long_sleep_time[w] < LongSleepLimit)
    /\ pc' = [pc EXCEPT ![w] = IF mode = "grid" THEN "pace" ELSE "post"]
    /\ failed_total' = [failed_total EXCEPT ![w] = 0]
    /\ long_sleep_time' = [long_sleep_time EXCEPT ![w] = 0]
    /\ UNCHANGED <<pureVars, assignVars, overseerVars, job, sleep_time,
                   login_i, authed, status,
                   timingVars>>

\* line 637 / 731
ScanAttempt(w) ==
    /\ pc[w] = "attempt"
    /\ ~TooManyFailures(w)
    /\ sleep_time' = [sleep_time EXCEPT
                         ![w] = args.scan_delay * (1 + failed_total[w])]
    /\ slept' = [slept EXCEPT ![w] = 0]
    /\ pc' = [pc EXCEPT ![w] = "login"]
    /\ UNCHANGED <<pureVars, assignVars, overseerVars, job, failed_total,
                   login_i, authed, status, long_sleep_time,
                   clock, loop_start_time, last_get>>

\* check_login, lines 776-784: remaining_time is what is left of the ticket
CheckLogin(w) ==
    /\ pc[w] = "login"
    /\ login_i' = [login_i EXCEPT ![w] = 0]
    /\ \E remaining_time \in {TicketMargin, TicketMargin + 1} :
          pc' = [pc EXCEPT
                    ![w] = IF authed[w] /\ remaining_time > TicketMargin
                           THEN "request"
                           ELSE "auth"]
    /\ UNCHANGED <<pureVars, assignVars, overseerVars, job, failed_total,
                   sleep_time, authed, status, long_sleep_time,
                   timingVars>>

\* check_login, lines 785-798: one pass of the login loop
Authenticate(w) ==
    /\ pc[w] = "auth"
    /\ login_i[w] < args.login_retries
    /\ \E ok \in BOOLEAN :
          IF ok
          THEN /\ authed' = [authed EXCEPT ![w] = TRUE]
               /\ pc' = [pc EXCEPT ![w] = "request"]
               /\ UNCHANGED <<login_i, job, failed_total>>
          ELSE \* except AuthException
               IF login_i[w] >= args.login_retries
               THEN \* raise TooManyLoginAttempts
                    /\ Handler(w)
                    /\ UNCHANGED authed
               ELSE /\ login_i' = [login_i EXCEPT ![w] = @ + 1]
                    /\ authed' = [authed EXCEPT ![w] = FALSE]
                    /\ UNCHANGED <<pc, job, failed_total>>
    /\ UNCHANGED <<pureVars, assignVars, overseerVars, sleep_time, status,
                   long_sleep_time,
                   timingVars>>

\* check_login, lines 785 and 800: the loop condition fails, the function
\* logs "Login ... successful" and returns
LoginLoopExit(w) ==
    /\ pc[w] = "auth"
    /\ ~(login_i[w] < args.login_retries)
    /\ pc' = [pc EXCEPT ![w] = "request"]
    /\ UNCHANGED <<pureVars, assignVars, overseerVars, job, failed_total,
                   sleep_time, login_i, authed, status, long_sleep_time,
                   timingVars>>

\* lines 643-652 / 734-742; map_request (803-822) turns a failed download
\* into False
MapRequest(w) ==
    /\ pc[w] = "request"
    /\ \E response \in BOOLEAN :
          IF response
          THEN /\ pc' = [pc EXCEPT ![w] = "parse"]
               /\ UNCHANGED <<failed_total, status>>
               /\ UNCHANGED slept
          ELSE /\ failed_total' = [failed_total EXCEPT ![w] = @ + 1]
               /\ status' = [status EXCEPT ![w].fail = @ + 1]
               \* time.sleep(sleep_time), line 651 / 741
               /\ slept' = [slept EXCEPT ![w] = @ + sleep_time[w]]
               /\ pc' = [pc EXCEPT ![w] = "attempt"]
    /\ login_i' = [login_i EXCEPT ![w] = 0]
    /\ UNCHANGED <<pureVars, assignVars, overseerVars, job, sleep_time,
                   authed, long_sleep_time, clock, loop_start_time,
                   last_get>>

\* lines 656-663 / 745-752: parse_map returns findCount
ParseMapCountsBoth(w) ==
    /\ pc[w] = "parse"
    /\ \E findCount \in 0..1 :
          status' = IF findCount > 0
                    THEN [status EXCEPT ![w].success = @ + 1,
                                        ![w].noitems = @ + 1]
                    ELSE [status EXCEPT ![w].noitems = @ + 1]
    /\ job' = [job EXCEPT ![w] = <<>>]
    /\ pc' = [pc EXCEPT ![w] = IF mode = "grid" THEN "pace" ELSE "post"]
    /\ failed_total' = [failed_total EXCEPT ![w] = 0]
    /\ UNCHANGED <<pureVars, assignVars, overseerVars, sleep_time, login_i,
                   authed, long_sleep_time,
                   timingVars>>

ParseMap(w) ==
    /\ pc[w] = "parse"
    /\ \E findCount \in 0..1 :
          status' = IF findCount > 0
                    THEN [status EXCEPT ![w].success = @ + 1]
                    ELSE [status EXCEPT ![w].noitems = @ + 1]
    /\ job' = [job EXCEPT ![w] = <<>>]
    /\ pc' = [pc EXCEPT ![w] = IF mode = "grid" THEN "pace" ELSE "post"]
    /\ failed_total' = [failed_total EXCEPT ![w] = 0]
    /\ UNCHANGED <<pureVars, assignVars, overseerVars, sleep_time, login_i,
                   authed, long_sleep_time,
                   timingVars>>

\* lines 664-669 / 753-759: parse_map raises KeyError.  The grid worker
\* sleeps in the except clause (line 669); the spawn-scan worker sleeps in
\* the except clause (line 758) and again on the next line of the retry
\* loop's body (line 759), which only this path reaches.
ParseKeyError(w) ==
    /\ pc[w] = "parse"
    /\ failed_total' = [failed_total EXCEPT ![w] = @ + 1]
    /\ status' = [status EXCEPT ![w].fail = @ + 1]
    /\ slept' = [slept EXCEPT
                    ![w] = IF mode = "grid" THEN @ + sleep_time[w]
                           ELSE @ + sleep_time[w] + sleep_time[w]]
    /\ pc' = [pc EXCEPT ![w] = "attempt"]
    /\ UNCHANGED <<pureVars, assignVars, overseerVars, job, sleep_time,
                   login_i, authed, long_sleep_time, clock, loop_start_time,
                   last_get>>

\* grid mode, lines 673-678: sleep what is left of scan_delay since
\* loop_start_time, then move loop_start_time on by scan_delay.  The clock
\* is in seconds; the sleep lets that much time pass.
PaceNeverWakes(w) ==
    /\ pc[w] = "pace"
    /\ UNCHANGED vars

Pace(w) ==
    /\ pc[w] = "pace"
    /\ LET sleep_delay_remaining ==
               loop_start_time[w] + args.scan_delay - clock
       IN  clock' = IF sleep_delay_remaining > 0
                    THEN clock + sleep_delay_remaining
                    ELSE clock
    /\ loop_start_time' = [loop_start_time EXCEPT ![w] = @ + args.scan_delay]
    /\ pc' = [pc EXCEPT ![w] = "wait"]
    /\ UNCHANGED <<pureVars, assignVars, overseerVars, job, failed_total,
                   sleep_time, login_i, authed, status, long_sleep_time,
                   slept, last_get>>

\* spawn-scan mode, lines 760-761: the status message formats sleep_time
PostScan(w) ==
    /\ pc[w] = "post"
    /\ IF sleep_time[w] = Unbound
       THEN Handler(w)
       ELSE /\ pc' = [pc EXCEPT ![w] = "wait"]
            /\ UNCHANGED <<job, failed_total, login_i>>
    /\ UNCHANGED <<pureVars, assignVars, overseerVars, sleep_time, authed,
                   status, long_sleep_time,
                   timingVars>>

Next ==
    \/ Tick
    \/ GridOverseer
    \/ SSLoad
    \/ SSDispatch
    \/ \E w \in Workers : WorkerStart(w)
    \/ \E w \in Workers : GridGet(w)
    \/ \E w \in Workers : SSGet(w)
    \/ \E w \in Workers : SetPosition(w)
    \/ \E w \in Workers : Abandon(w)
    \/ \E w \in Workers : CooldownBeat(w)
    \/ \E w \in Workers : CooldownEnd(w)
    \/ \E w \in Workers : ScanAttempt(w)
    \/ \E w \in Workers : CheckLogin(w)
    \/ \E w \in Workers : Authenticate(w)
    \/ \E w \in Workers : LoginLoopExit(w)
    \/ \E w \in Workers : MapRequest(w)
    \/ \E w \in Workers : ParseMap(w)
    \/ \E w \in Workers : ParseKeyError(w)
    \/ \E w \in Workers : Pace(w)
    \/ \E w \in Workers : PostScan(w)
    \/ \E w \in Workers : Fault(w)

Spec == InitThreads /\ [][Next]_vars

(***************************************************************************)
(* The grid run with its environment: the pause flag is set and cleared    *)
(* and locations are signalled while the threads run.                      *)
(***************************************************************************)
InitGrid ==
    /\ InitThreads
    /\ mode = "grid"
    /\ args.scan_retries = 1
    /\ args.login_retries = 1

NextGrid ==
    \/ TogglePause
    \/ \E c \in GridCenters : NewLocation(c)
    \/ GridOverseer
    \/ \E w \in Workers : WorkerStart(w)
    \/ \E w \in Workers : GridGet(w)
    \/ \E w \in Workers : SetPosition(w)
    \/ \E w \in Workers : Abandon(w)
    \/ \E w \in Workers : CooldownBeat(w)
    \/ \E w \in Workers : CooldownEnd(w)
    \/ \E w \in Workers : ScanAttempt(w)
    \/ \E w \in Workers : CheckLogin(w)
    \/ \E w \in Workers : Authenticate(w)
    \/ \E w \in Workers : LoginLoopExit(w)
    \/ \E w \in Workers : MapRequest(w)
    \/ \E w \in Workers : ParseMap(w)
    \/ \E w \in Workers : ParseKeyError(w)
    \/ \E w \in Workers : Pace(w)
    \/ \E w \in Workers : Fault(w)

SpecGrid == InitGrid /\ [][NextGrid]_vars

(***************************************************************************)
(* The grid run over a step list of several cells (two rings).  The        *)
(* workers come back to the queue by the exception handler (lines 681-684) *)
(* once sleep_time is bound; the rest of a job, which never touches the    *)
(* queue, is left to Spec and SpecGrid.                                    *)
(***************************************************************************)
InitFill ==
    /\ InitThreadsWith(MaxAccounts, 2)
    /\ mode = "grid"
    /\ args.scan_retries = 1
    /\ args.login_retries = 1

NextFill ==
    \/ TogglePause
    \/ \E c \in GridCenters : NewLocation(c)
    \/ GridOverseer
    \/ \E w \in Workers : WorkerStart(w)
    \/ \E w \in Workers : GridGet(w)
    \/ \E w \in Workers : SetPosition(w)
    \/ \E w \in Workers : ScanAttempt(w)
    \/ \E w \in Workers : Fault(w)

SpecFill == InitFill /\ [][NextFill]_vars

(***************************************************************************)
(* The grid run when nothing goes wrong: the pause flag stays clear, no    *)
(* location arrives after the first one, every fetch and every parse       *)
(* succeeds and no exception is raised.  The overseer thread and each      *)
(* worker thread keep running (weak fairness): their sleeps end and a      *)
(* blocking get returns once the queue holds an item.                      *)
(***************************************************************************)
\* lines 300-357: the overseer after its first iteration, which has taken
\* the starting location and queued its steps
OverseerStarted ==
    /\ new_location_queue = <<>>
    /\ current_location = <<0, 0>>
    /\ locations = generate_location_steps(<<0, 0>>, args.step_limit)
    /\ search_items_queue = Enumerate(locations)
    /\ passes = 1
    /\ overseer_message = "Queuing next step"

InitLive ==
    /\ InitWorkersWith(1, 2) \/ InitWorkersWith(MaxAccounts, 1)
    /\ mode = "grid"
    /\ OverseerStarted
    /\ args.scan_retries \in {0, 1}
    /\ args.login_retries = 1

\* map_request returns a response (line 643, the test at line 646 fails)
FetchSucceeds(w) == MapRequest(w) /\ pc'[w] = "parse"

WorkerLive(w) ==
    \/ WorkerStart(w)
    \/ GridGet(w)
    \/ SetPosition(w)
    \/ Abandon(w)
    \/ CooldownBeat(w)
    \/ CooldownEnd(w)
    \/ ScanAttempt(w)
    \/ CheckLogin(w)
    \/ Authenticate(w)
    \/ LoginLoopExit(w)
    \/ FetchSucceeds(w)
    \/ ParseMap(w)
    \/ Pace(w)

NextLive ==
    \/ GridOverseer
    \/ \E w \in Workers : WorkerStart(w)
    \/ \E w \in Workers : GridGet(w)
    \/ \E w \in Workers : SetPosition(w)
    \/ \E w \in Workers : Abandon(w)
    \/ \E w \in Workers : CooldownBeat(w)
    \/ \E w \in Workers : CooldownEnd(w)
    \/ \E w \in Workers : ScanAttempt(w)
    \/ \E w \in Workers : CheckLogin(w)
    \/ \E w \in Workers : Authenticate(w)
    \/ \E w \in Workers : LoginLoopExit(w)
    \/ \E w \in Workers : FetchSucceeds(w)
    \/ \E w \in Workers : ParseMap(w)
    \/ \E w \in Workers : Pace(w)

FairLive ==
    /\ WF_vars(GridOverseer)
    /\ \A w \in 0..(MaxAccounts - 1) :
           WF_vars(w \in Workers /\ WorkerLive(w))

SpecLive == InitLive /\ [][NextLive]_vars /\ FairLive

(***************************************************************************)
(* The grid run of one worker against the clock.                           *)
(***************************************************************************)
InitPace ==
    /\ InitThreadsOf(1)
    /\ mode = "grid"
    /\ args.scan_retries = 1
    /\ args.login_retries = 1

NextPace ==
    \/ GridTick
    \/ GridOverseer
    \/ \E w \in Workers : WorkerStart(w)
    \/ \E w \in Workers : GridGet(w)
    \/ \E w \in Workers : SetPosition(w)
    \/ \E w \in Workers : Abandon(w)
    \/ \E w \in Workers : CooldownBeat(w)
    \/ \E w \in Workers : CooldownEnd(w)
    \/ \E w \in Workers : ScanAttempt(w)
    \/ \E w \in Workers : CheckLogin(w)
    \/ \E w \in Workers : Authenticate(w)
    \/ \E w \in Workers : LoginLoopExit(w)
    \/ \E w \in Workers : MapRequest(w)
    \/ \E w \in Workers : ParseMap(w)
    \/ \E w \in Workers : ParseKeyError(w)
    \/ \E w \in Workers : Pace(w)
    \/ \E w \in Workers : Fault(w)

SpecPace == InitPace /\ [][NextPace]_vars

(***************************************************************************)
(* The spawn-scan overseer alone against the clock, for several rounds of  *)
(* the schedule: the workers have not started to take items, so that the   *)
(* queues hold everything that was dispatched.                             *)
(***************************************************************************)
InitDispatch ==
    /\ InitThreads
    /\ mode = "ss"
    /\ args.scan_retries = 0
    /\ args.login_retries = 0

SSDispatchRounds == SSDispatchUpTo(MaxRounds * Len(spawns))

NextDispatch ==
    \/ Tick
    \/ SSLoad
    \/ SSDispatchRounds

SpecDispatch == InitDispatch /\ [][NextDispatch]_vars

(***************************************************************************)
(* Claims about the worker threads, checked under Spec.                    *)
(***************************************************************************)
\* C1: in grid and in spawn-scan mode, at most one worker is inside
\* parse_map at any moment.
C1_ParseMutex == Cardinality({w \in Workers : pc[w] = "parse"}) <= 1

\* C2: a fault raised anywhere in a worker's loop, the first pass included,
\* is caught by the top-level handler and the worker thread does not end.
C2_WorkerSurvivesFault == \A w \in Workers : pc[w] # "dead"

\* C3: check_login does not return normally after authenticate has failed
\* with AuthException on login_retries consecutive attempts.
C3_LoginExhaustionRaises ==
    \A w \in Workers :
        ~(/\ pc[w] = "request"
          /\ args.login_retries > 0
          /\ login_i[w] >= args.login_retries)

\* C4: once scan_retries attempts on a job have failed the worker makes no
\* further attempt for it, never puts it back on a queue and goes through
\* the whole cooldown before it takes its next job; with fewer failures it
\* keeps retrying the same job.
C4_NoAttemptAfterRetries ==
    \A w \in Workers :
        pc[w] \in {"login", "auth", "request", "parse"} =>
            failed_total[w] < args.scan_retries

C4_Step ==
    \A w \in Workers :
        \* the top of the retry loop: abandon, or try the same job again
        /\ (pc[w] = "attempt" /\ pc'[w] # "attempt") =>
               IF failed_total[w] >= args.scan_retries
               THEN pc'[w] = "cooldown" /\ job'[w] = <<>>
               ELSE pc'[w] = "login" /\ job[w] # <<>> /\ job'[w] = job[w]
        \* a failed fetch or a retryable parse failure counts one failure
        \* and keeps the job
        /\ (pc[w] \in {"request", "parse"} /\ pc'[w] = "attempt") =>
               /\ job'[w] = job[w]
               /\ failed_total'[w] = failed_total[w] + 1
        \* the cooldown is left only when it is over
        /\ (pc[w] = "cooldown" /\ pc'[w] # "cooldown") =>
               /\ ~(long_sleep_time[w] < LongSleepLimit)
               /\ pc'[w] \in {"pace", "post"}
        \* the next job is taken from the queue, by a waiting worker
        /\ (pc[w] # "position" /\ pc'[w] = "position") => pc[w] = "wait"
        \* no step of a worker adds an item to a queue
        /\ pc'[w] # pc[w] =>
               /\ Len(search_items_queue') <= Len(search_items_queue)
               /\ \A v \in Workers :
                      Len(search_items_queues'[v])
                          <= Len(search_items_queues[v])

C4_Abandonment == [](C4_NoAttemptAfterRetries) /\ [][C4_Step]_vars

\* A spawn-scan worker is in cooldown after MaxScanRetries failed attempts.
C4_Witness ==
    \E w \in Workers :
        /\ mode = "ss"
        /\ pc[w] = "cooldown"
        /\ args.scan_retries = MaxScanRetries
        /\ failed_total[w] = MaxScanRetries
        /\ status[w].fail >= MaxScanRetries

\* C5: when the cooldown ends the worker has slept 2 hours (7200 s) in 24
\* sleeps of 300 s, each preceded by one heartbeat.
C5_CooldownTwoHours ==
    \A w \in Workers :
        (pc[w] = "cooldown" /\ ~(long_sleep_time[w] < LongSleepLimit)) =>
            /\ long_sleep_time[w] = 2 * 60 * 60
            /\ long_sleep_time[w] \div LongSleepStep = 24

\* C12: a spawn-scan worker that dequeues a job whose spawn time lies more
\* than 840 s before the current second of the hour, (now - spawntime) mod
\* 3600 > 840, does not start on it: it stays waiting for work, adds exactly
\* one to its skipped counter and changes no other counter.
C12_StaleSkipStep ==
    \A w \in Workers :
        (/\ mode = "ss"
         /\ Len(search_items_queues'[w]) < Len(search_items_queues[w])
         /\ (now - Head(search_items_queues[w])[3]) % Hour > TooLate) =>
            /\ pc[w] = "wait" /\ pc'[w] = "wait"
            /\ job'[w] = job[w]
            /\ status'[w] = [status[w] EXCEPT !.skip = @ + 1]

C12_StaleSkip == [][C12_StaleSkipStep]_vars

\* C17: when a worker is back at the top of the retry loop after the f-th
\* failure on its job (f >= 1), it has slept scan_delay * f since that
\* failure, once: the same after an empty response and after a parse
\* failure, in grid and in spawn-scan mode.
C17_BackoffAmount ==
    \A w \in Workers :
        (pc[w] = "attempt" /\ failed_total[w] > 0) =>
            slept[w] = args.scan_delay * failed_total[w]

(***************************************************************************)
(* Claims about the grid overseer, checked under SpecGrid.                 *)
(***************************************************************************)
\* The overseer's latest pass found the pause flag set, and the flag is set.
Paused == pause_bit /\ overseer_message = "Scanning is paused"

\* C11: once the overseer has made a pass with the pause flag set the shared
\* queue is empty; while the flag stays set nothing is enqueued and no
\* worker takes a new job; the overseer's and the flag's steps leave every
\* worker and the job it holds alone.
C11_PausedQueueEmpty == Paused => search_items_queue = <<>>

C11_Step ==
    /\ (Paused /\ pause_bit') =>
           /\ search_items_queue' = <<>>
           /\ \A w \in Workers : ~(pc[w] = "wait" /\ pc'[w] = "position")
    /\ (\/ pause_bit' # pause_bit
        \/ overseer_message' # overseer_message
        \/ Len(search_items_queue') > Len(search_items_queue)
        \/ (search_items_queue' # search_items_queue /\ job' = job)) =>
           UNCHANGED <<pc, job, failed_total, status>>

C11_Pause == [](C11_PausedQueueEmpty) /\ [][C11_Step]_vars

\* The overseer has made a pass with the flag set while one worker is in the
\* middle of a job it took before and another waits for work.
C11_Witness ==
    /\ Paused
    /\ locations # <<>>
    /\ \E w \in Workers : pc[w] = "request" /\ job[w] # <<>>
    /\ \E w \in Workers : pc[w] = "wait"

\* C18: an unpaused overseer pass that finds relocation signals adopts the
\* latest one, leaves the channel empty, and replaces the step list and the
\* content of the shared queue by the steps of the new center; at all times
\* every queued item is a step of the adopted center's list.
QueueItems == {search_items_queue[x] : x \in 1..Len(search_items_queue)}

StepItems(list) == {<<x, list[x]>> : x \in 1..Len(list)}

C18_QueueFromCenter ==
    /\ QueueItems \subseteq StepItems(locations)
    /\ current_location # <<>> =>
           locations = generate_location_steps(current_location,
                                               args.step_limit)

C18_Step ==
    (new_location_queue # <<>> /\ new_location_queue' = <<>>) =>
        /\ ~pause_bit
        /\ current_location' = new_location_queue[Len(new_location_queue)]
        /\ locations' = generate_location_steps(current_location',
                                                args.step_limit)
        /\ QueueItems' \subseteq StepItems(locations')

C18_Relocation == [](C18_QueueFromCenter) /\ [][C18_Step]_vars

\* The overseer has moved from one center to another while a worker holds a
\* step of the earlier center and the queue holds a step of the new one.
C18_Witness ==
    /\ current_location = <<MaxCoord, 0>>
    /\ search_items_queue # <<>>
    /\ \E w \in Workers : job[w] # <<>> /\ job[w][2] = <<0, 0, 0>>

(***************************************************************************)
(* Claims about the grid worker's pacing, checked under SpecPace.          *)
(***************************************************************************)
\* C20: within one run of a grid worker's inner loop, the moment at which it
\* takes a job from the shared queue is at least scan_delay after the
\* moment at which it took the job before.
C20_PacingStep ==
    \A w \in Workers :
        (/\ pc[w] = "wait" /\ pc'[w] = "position"
         /\ last_get[w] # Unbound) =>
            clock - last_get[w] >= args.scan_delay

C20_GridPacing == [][C20_PacingStep]_vars

(***************************************************************************)
(* Claims about the spawn-scan overseer, checked under SpecDispatch.       *)
(***************************************************************************)
\* The workers whose queue a step has made longer.
Grown == {w \in Workers :
             Len(search_items_queues'[w]) > Len(search_items_queues[w])}

\* How often the point at index x (0-based) is in the workers' queues.
Dispatched(x) ==
    LET n[w \in -1..(args.n - 1)] ==
            IF w = -1 THEN 0
            ELSE n[w - 1] + Cardinality({y \in 1..Len(search_items_queues[w]) :
                                            search_items_queues[w][y][1] = x})
    IN  n[args.n - 1]

\* C19: every dispatch puts the point under the cursor on the queue of the
\* worker its assignment names, a valid index, and on no other queue; the
\* cursor moves only then, by pos := (pos + 1) mod len(schedule); so the
\* points go out in schedule order and no point is dispatched again before
\* every other point has been dispatched once more.
C19_Routed ==
    \A w \in Workers :
        \A y \in 1..Len(search_items_queues[w]) :
            LET item == search_items_queues[w][y]
            IN  /\ item[1] \in 0..(Len(schedule[1]) - 1)
                /\ schedule[1][item[1] + 1].worker = w
                /\ item[3] = schedule[1][item[1] + 1].time

C19_Rounds ==
    schedule # <<>> =>
        \A x, y \in 0..(Len(schedule[1]) - 1) :
            /\ Abs(Dispatched(x) - Dispatched(y)) <= 1
            /\ ((y - pos) % Len(schedule[1]) < (x - pos) % Len(schedule[1])) =>
                   Dispatched(y) <= Dispatched(x)

C19_Step ==
    /\ (overseer = "run" /\ pos' # pos) => Grown # {}
    /\ Grown # {} =>
           LET sp == schedule[1][pos + 1]
           IN  /\ sp.worker \in 0..(args.n - 1)
               /\ Grown = {sp.worker}
               /\ search_items_queues' =
                      [search_items_queues EXCEPT
                          ![sp.worker] = Append(@, <<pos, <<sp.lat, 0, 40>>,
                                                     sp.time>>)]
               /\ pos' = (pos + 1) % Len(schedule[1])

C19_Dispatch == [](C19_Routed /\ C19_Rounds) /\ [][C19_Step]_vars

\* A point has gone out twice, every other point in between, and both
\* workers have been served.
C19_Witness ==
    /\ schedule # <<>> /\ Len(schedule[1]) = Len(SSSpawns)
    /\ \E x \in 0..(Len(schedule[1]) - 1) : Dispatched(x) = 2
    /\ \A x \in 0..(Len(schedule[1]) - 1) : Dispatched(x) >= 1
    /\ \A w \in Workers : search_items_queues[w] # <<>>

\* C23: whenever the overseer enqueues schedule[pos], the current second of
\* the hour is within 60 s of that point's time, measured circularly.
C23_TimingStep ==
    Grown # {} =>
        Abs(timeDif(now, schedule[1][pos + 1].time)) <= DispatchLag

C23_DispatchTiming == [][C23_TimingStep]_vars

(***************************************************************************)
(* Claims about assign_spawns, checked under SpecAssign.                   *)
(***************************************************************************)
Assigned == schedule # <<>>

\* C6: in the schedule assign_spawns returns, any two points of one worker
\* have scheduled times at least scan_delay apart, measured circularly
\* modulo 3600 in either direction (the wrap-around pair included).
C6_SameWorkerSpacing ==
    Assigned =>
        \A x, y \in 1..Len(schedule[1]) :
            (x # y /\ schedule[1][x].worker = schedule[1][y].worker) =>
                (schedule[1][y].time - schedule[1][x].time) % Hour
                    >= args.scan_delay

\* C7: every input point is exactly once in the returned schedule or exactly
\* once in the rejected list, never in both and never in neither.
Occurrences(list, id) == Cardinality({x \in 1..Len(list) : list[x].id = id})

C7_Partition ==
    Assigned =>
        \A x \in 1..Len(spawns) :
            Occurrences(schedule[1], spawns[x].id)
                + Occurrences(bad, spawns[x].id) = 1

\* The input point with the given id (spawns keeps the input, sorted).
Natural(id) == spawns[CHOOSE x \in 1..Len(spawns) : spawns[x].id = id]

\* C13: with 2 workers, max_speed = infinity and scan_delay = 0, whatever
\* max_delay, assign_spawns schedules every input point, rejects none,
\* records no delay and leaves every scheduled time at the natural time.
C13_Unconstrained ==
    (/\ Assigned
     /\ args.n = 2 /\ args.max_speed = Inf /\ args.scan_delay = 0) =>
        /\ bad = <<>>
        /\ delays = <<>>
        /\ Len(schedule[1]) = Len(spawns)
        /\ \A x \in 1..Len(spawns) :
               Occurrences(schedule[1], spawns[x].id) = 1
        /\ \A y \in 1..Len(schedule[1]) :
               /\ schedule[1][y].time = Natural(schedule[1][y].id).time
               /\ schedule[1][y].lat = Natural(schedule[1][y].id).lat

\* Three points, two at the same second and far apart, max_delay = 0.
C13_Witness ==
    /\ Assigned
    /\ args.n = 2 /\ args.max_speed = Inf /\ args.scan_delay = 0
    /\ args.max_delay = Num(0)
    /\ Len(schedule[1]) = MaxSpawns
    /\ \E x, y \in 1..Len(spawns) :
           /\ x # y
           /\ spawns[x].time = spawns[y].time
           /\ spawns[x].lat # spawns[y].lat
           /\ \E z \in 1..Len(spawns) : spawns[z].time # spawns[x].time

\* C14: every point of the schedule assign_spawns returns has a time in
\* [0, 3600).
C14_TimeRange ==
    Assigned =>
        \A y \in 1..Len(schedule[1]) :
            schedule[1][y].time >= 0 /\ schedule[1][y].time < Hour

\* C15: no point of the returned schedule is scheduled more than max_delay
\* after its natural time.
C15_ShiftBound ==
    Assigned =>
        \A y \in 1..Len(schedule[1]) :
            Leq(Num(schedule[1][y].time - Natural(schedule[1][y].id).time),
                args.max_delay)

\* C16: with finite max_speed, in every worker's queue of at least two
\* points, each point and its circular successor (p, q) satisfy
\* dist(p, q) / max((q.time - p.time) mod 3600, scan_delay) <= max_speed;
\* this holds after every committed insertion.
\* The quotient is compared as dist <= max_speed * time, so that two points
\* at one place and one second (0 / 0) count as within the bound.
SpeedBound(queue) ==
    Len(queue) >= 2 =>
        \A x \in 1..Len(queue) :
            LET p == queue[x]
                q == queue[(x % Len(queue)) + 1]
                time == Max((q.time - p.time) % Hour, args.scan_delay)
            IN  dist(p, q) * args.max_speed[2] <= args.max_speed[1] * time

C16_SpeedBound ==
    (cursor >= 1 /\ args.max_speed # Inf) =>
        \A w \in 1..Len(Q) : SpeedBound(Q[w])

\* C21: whenever a point is committed with a wiggle (a delay is recorded),
\* the wait added is at most the room between the point's clamped time and
\* the time of its circular successor on that worker,
\* (succ.time - P.time) mod 3600.
C21_WiggleStep ==
    Len(delays') > Len(delays) =>
        \A w \in 1..Len(Q) :
            Q'[w] # Q[w] =>
                LET time2wait == delays'[Len(delays')][1]
                    x    == CHOOSE y \in 1..Len(Q'[w]) :
                                Q'[w][y].id = spawns[cursor].id
                    P    == Q'[w][x]
                    succ == Q'[w][(x % Len(Q'[w])) + 1]
                IN  time2wait <=
                        (succ.time - (P.time - time2wait)) % Hour

C21_WiggleFits == [][C21_WiggleStep]_vars

\* Cost tuples (delay, max(s1, s2), s1, s2) in lexicographic order.
CostBefore(s, t) ==
    \E c \in 1..4 :
        /\ Less(s[c], t[c])
        /\ \A b \in 1..(c - 1) : ~Less(s[b], t[b]) /\ ~Less(t[b], s[b])

\* C22: a point is committed only to the worker whose insertion cost is the
\* lexicographically smallest, the lowest index among equal costs; an empty
\* input gives an empty schedule, and a single point is scheduled on worker
\* 0 at its natural time with no delay.
C22_ChoiceStep ==
    (cursor >= 1 /\ cursor' = cursor + 1) =>
        \A w \in 1..Len(Q) :
            Q'[w] # Q[w] =>
                LET cost(v) == insert(Q[v], spawns[cursor], TRUE).score
                IN  \A v \in 1..Len(Q) :
                        /\ ~CostBefore(cost(v), cost(w))
                        /\ v < w => CostBefore(cost(w), cost(v))

C22_EdgeCases ==
    Assigned =>
        /\ spawns = <<>> => schedule[1] = <<>>
        /\ Len(spawns) = 1 =>
               /\ schedule[1] = <<[id     |-> spawns[1].id,
                                   lat    |-> spawns[1].lat,
                                   time   |-> spawns[1].time,
                                   worker |-> 0]>>
               /\ delays = <<>> /\ bad = <<>>

C22_WorkerChoice == [](C22_EdgeCases) /\ [][C22_ChoiceStep]_vars

\* Two workers share three points: the second worker was the cheaper one
\* for some point.
C22_Witness ==
    /\ Assigned /\ args.n = 2
    /\ Len(schedule[1]) = MaxSpawns
    /\ \E y \in 1..Len(schedule[1]) : schedule[1][y].worker = 1
    /\ \E y \in 1..Len(schedule[1]) : schedule[1][y].worker = 0

\* The queue without its element at position x.
Without(queue, x) == SubSeq(queue, 1, x - 1) \o SubSeq(queue, x + 1, Len(queue))

\* C24: a dry insert leaves the queue as it was; the non-dry insert of the
\* same point into the same queue returns the same cost and, when the cost
\* is finite, adds exactly one copy of the point, at its shifted time, and
\* nothing else; a committing step changes one queue only and leaves the
\* point passed in as it was.
C24_DryThenCommit ==
    (cursor >= 1 /\ cursor <= Len(spawns)) =>
        \A w \in 1..Len(Q) :
            LET sp   == spawns[cursor]
                try  == insert(Q[w], sp, TRUE)
                done == insert(Q[w], sp, FALSE)
            IN  /\ try.queue = Q[w]
                /\ done.score = try.score
                /\ ~Less(done.score[1], Inf) => done.queue = Q[w]
                /\ Less(done.score[1], Inf) =>
                       /\ Len(done.queue) = Len(Q[w]) + 1
                       /\ \E x \in 1..Len(done.queue) :
                              /\ done.queue[x].id = sp.id
                              /\ done.queue[x].lat = sp.lat
                              /\ done.queue[x].time >= sp.time
                              /\ Without(done.queue, x) = Q[w]

C24_CommitStep ==
    (cursor >= 1 /\ cursor' = cursor + 1) =>
        /\ spawns' = spawns
        /\ \A w, v \in 1..Len(Q) : (Q'[w] # Q[w] /\ Q'[v] # Q[v]) => w = v
        /\ \A w \in 1..Len(Q) :
               Q'[w] # Q[w] => Q'[w] = insert(Q[w], spawns[cursor], FALSE).queue

C24_DryRun == [](C24_DryThenCommit) /\ [][C24_CommitStep]_vars

\* A point is about to be offered to two workers of which one would take it
\* with a wiggle and the other cannot take it.
C24_Witness ==
    /\ cursor >= 1 /\ cursor <= Len(spawns) /\ Len(Q) = 2
    /\ \E w, v \in 1..Len(Q) :
           LET sp == spawns[cursor]
           IN  /\ Less(Num(0), insert(Q[w], sp, TRUE).score[1])
               /\ Less(insert(Q[w], sp, TRUE).score[1], Inf)
               /\ insert(Q[w], sp, FALSE).queue # Q[w]
               /\ ~Less(insert(Q[v], sp, TRUE).score[1], Inf)

(***************************************************************************)
(* Claims about the pure helpers.                                          *)
(***************************************************************************)
\* C8: for a non-empty schedule sorted by time and T in [0,3600), the index
\* SbSearch returns has time >= T and no smaller index has (checked under
\* SpecSbSearch).
C8_SbSearchLowest ==
    Returned("SbSearch") =>
        /\ call.Slist[ret[1] + 1].time >= call.T
        /\ \A x \in 0..(ret[1] - 1) : call.Slist[x + 1].time < call.T

\* C9 as stated: timeDif(a,b) is congruent to a - b modulo 3600 and lies in
\* the half-open interval (-1800, 1800] (checked under SpecTimeDif).
C9_TimeDifHalfOpen ==
    Returned("timeDif") =>
        /\ (ret[1] - (call.a - call.b)) % Hour = 0
        /\ -HalfHour < ret[1] /\ ret[1] <= HalfHour

\* C9 as amended: timeDif(a,b) is congruent to a - b modulo 3600 and lies in
\* the closed interval [-1800, 1800]; it is -1800 exactly when a - b is.
C9_TimeDifClosed ==
    Returned("timeDif") =>
        /\ (ret[1] - (call.a - call.b)) % Hour = 0
        /\ -HalfHour <= ret[1] /\ ret[1] <= HalfHour
        /\ (ret[1] = -HalfHour) <=> (call.a - call.b = -HalfHour)

\* The boundary case: timeDif(a, a + 1800) has returned.
C9_Witness ==
    Returned("timeDif") /\ call.b - call.a = HalfHour /\ ret[1] = -HalfHour

\* Rings between a location and the center on the generator's lattice.
HexDist(loc, center) ==
    LET dlat == Abs(loc[1] - center[1])
        dlng == Abs(loc[2] - center[2])
    IN  dlat + Max(0, (dlng - dlat) \div 2)

\* C10: generate_location_steps(C, k, d) yields exactly 1 + 3k(k-1)
\* locations, the first is C, ring r (1 <= r < k) contributes exactly 6r of
\* them, and k = 2 gives 7 (checked under SpecSteps).
C10_StepCount ==
    Returned("generate_location_steps") =>
        LET out == ret[1]
            k   == call.step_count
            C   == call.initial_loc
        IN  /\ Len(out) = 1 + 3 * k * (k - 1)
            /\ out[1] = <<C[1], C[2], 0>>
            /\ \A r \in 1..(k - 1) :
                   Cardinality({x \in 1..Len(out) : HexDist(out[x], C) = r})
                       = 6 * r
            /\ (k = 2 => Len(out) = 7)

\* A call with three rings around the center has returned.
C10_Witness ==
    /\ Returned("generate_location_steps")
    /\ call.step_count = 4
    /\ Len(ret[1]) = 37

(***************************************************************************)
(* C25: the grid overseer refills the shared queue only when it finds it   *)
(* empty (or has just emptied it for a new center), with the active step   *)
(* list numbered 1..N in order; so the indices in the queue increase       *)
(* strictly from head to tail, no step is queued twice, every queued step  *)
(* is an item of the active step list, and a step leaving the queue goes   *)
(* to exactly one worker.                                                  *)
(***************************************************************************)
C25_Shape ==
    /\ \A x, y \in 1..Len(search_items_queue) :
           x < y => search_items_queue[x][1] < search_items_queue[y][1]
    /\ QueueItems \subseteq StepItems(locations)

Receivers ==
    {w \in Workers : job'[w] # job[w] /\ job'[w] = Head(search_items_queue)}

C25_Step ==
    search_items_queue' # search_items_queue =>
        \/ /\ search_items_queue' = <<>>
           /\ job' = job
        \/ /\ search_items_queue # <<>>
           /\ search_items_queue' = Tail(search_items_queue)
           /\ Cardinality(Receivers) = 1
           /\ \A w \in Workers \ Receivers : job'[w] = job[w]
        \/ /\ search_items_queue = <<>> \/ new_location_queue # <<>>
           /\ job' = job
           /\ Len(search_items_queue') = Len(locations')
           /\ \A x \in 1..Len(locations') :
                  search_items_queue'[x] = <<x, locations'[x]>>

C25_QueueShape == [](C25_Shape) /\ [][C25_Step]_vars

C25_Witness ==
    /\ Len(search_items_queue) >= 2
    /\ passes = MaxPasses
    /\ \A w \in Workers : job[w] # <<>>
    /\ \A v, w \in Workers : v # w => job[v] # job[w]

(***************************************************************************)
(* C26: during assign_spawns, after every committed insertion, each        *)
(* worker's queue is in non-decreasing order of scheduled time.            *)
(***************************************************************************)
C26_QueuesSorted ==
    \A w \in 1..Len(Q) :
        \A x, y \in 1..Len(Q[w]) : x < y => Q[w][x].time <= Q[w][y].time

(***************************************************************************)
(* C27: whenever check_login returns normally the session is               *)
(* authenticated: its ticket had more than 60 s left on entry and no       *)
(* authenticate call was made, or its most recent authenticate call        *)
(* succeeded; so no fetch follows a check_login in which every attempt     *)
(* failed.  A call makes at most login_retries attempts.                   *)
(***************************************************************************)
C27_ReturnStep ==
    \A w \in Workers :
        pc'[w] = "request" /\ pc[w] # "request" =>
            \/ /\ pc[w] = "login"
               /\ authed[w]
               /\ authed'[w]
            \/ /\ pc[w] = "auth"
               /\ login_i[w] < args.login_retries
               /\ authed'[w]

C27_LoginPostcondition ==
    /\ [](\A w \in Workers : login_i[w] <= args.login_retries)
    /\ [][C27_ReturnStep]_vars

(***************************************************************************)
(* C28: every job a worker takes and finishes without an uncaught fault    *)
(* has exactly one outcome: success + 1, noitems + 1, abandonment, or, for *)
(* a spawn-scan item found stale, skip + 1.  The fail counter grows by one *)
(* per failed attempt and by at most scan_retries per job; an abandoned    *)
(* job adds to neither success nor noitems; a worker holds at most one job *)
(* at a time.                                                              *)
(***************************************************************************)
C28_FailsBounded == \A w \in Workers : failed_total[w] <= args.scan_retries

C28_JobStep(w) ==
    LET old   == status[w]
        new   == status'[w]
        done  == /\ job[w] # <<>> /\ job'[w] = <<>>
                 /\ pc'[w] \notin {"start", "dead"}
        taken == /\ mode = "ss"
                 /\ search_items_queues[w] # <<>>
                 /\ search_items_queues'[w] = Tail(search_items_queues[w])
    IN  /\ job'[w] # job[w] => job[w] = <<>> \/ job'[w] = <<>>
        /\ job[w] = <<>> /\ job'[w] # <<>> => new = old
        /\ done =>
               \/ new = [old EXCEPT !.success = @ + 1]
               \/ new = [old EXCEPT !.noitems = @ + 1]
               \/ new = old /\ pc'[w] = "cooldown" /\ TooManyFailures(w)
        /\ new.success # old.success \/ new.noitems # old.noitems => done
        /\ taken /\ job'[w] = <<>> => new = [old EXCEPT !.skip = @ + 1]
        /\ new.skip # old.skip => taken /\ job[w] = <<>> /\ job'[w] = <<>>
        /\ failed_total'[w] = failed_total[w] + 1 <=>
               /\ new = [old EXCEPT !.fail = @ + 1]
               /\ job'[w] = job[w] /\ job[w] # <<>>
        /\ new.fail # old.fail => failed_total'[w] = failed_total[w] + 1

C28_Step == \A w \in Workers : C28_JobStep(w)

C28_JobAccounting == [](C28_FailsBounded) /\ [][C28_Step]_vars

C28_Witness ==
    \E w \in Workers :
        /\ pc[w] = "cooldown"
        /\ status[w].fail >= 1
        /\ status[w].success + status[w].noitems >= 1

(***************************************************************************)
(* C29: a relocation signal that arrives while the pause flag is set is    *)
(* neither consumed nor lost during the pause, and nothing is enqueued     *)
(* meanwhile; the overseer iteration that enqueues again runs with the     *)
(* flag clear and adopts the latest pending location first, so every step  *)
(* it enqueues is a step of that center and none is a step of the          *)
(* pre-pause center.                                                       *)
(***************************************************************************)
C29_PausedStep ==
    pause_bit =>
        /\ Len(new_location_queue') >= Len(new_location_queue)
        /\ SubSeq(new_location_queue', 1, Len(new_location_queue))
               = new_location_queue
        /\ current_location' = current_location
        /\ locations' = locations
        /\ Len(search_items_queue') <= Len(search_items_queue)

C29_EnqueueStep ==
    (/\ search_items_queue' # search_items_queue
     /\ search_items_queue' # <<>>
     /\ search_items_queue = <<>>
            \/ search_items_queue' # Tail(search_items_queue)) =>
        /\ ~pause_bit
        /\ new_location_queue' = <<>>
        /\ new_location_queue # <<>> =>
               current_location' =
                   new_location_queue[Len(new_location_queue)]
        /\ QueueItems' \subseteq
               StepItems(generate_location_steps(current_location',
                                                 args.step_limit))

LiveItems ==
    StepItems(generate_location_steps(<<0, 0>>, 1))
        \cup StepItems(generate_location_steps(<<0, 0>>, 2))

Scanning(item) == \E w \in Workers : pc[w] = "parse" /\ job[w] = item

RECURSIVE ScansUpTo(_)
ScansUpTo(w) ==
    IF w < 0 THEN 0
    ELSE status[w].success + status[w].noitems + ScansUpTo(w - 1)

Scans == ScansUpTo(args.n - 1)

EveryPassScanned ==
    /\ passes = MaxPasses
    /\ search_items_queue = <<>>
    /\ Scans = MaxPasses * Len(locations)

Retrying == args.scan_retries >= 1

C30_QueuedIsScanned ==
    \A item \in LiveItems : (item \in QueueItems) ~> Scanning(item)

C30_DrainedIsRefilled ==
    (search_items_queue = <<>> /\ passes < MaxPasses)
        ~> (search_items_queue # <<>>)

NeverFetches ==
    /\ Scans = 0
    /\ \A w \in Workers : pc[w] \notin {"login", "auth", "request", "parse"}

=============================================================================
